---- MODULE Spec2Model ----
(***************************************************************************)
(* pymeschooldata/core.py: the rpy2 wrapper around the meschooldata R      *)
(* package.  The module-level cache _pkg, the lazy loader _get_pkg, the    *)
(* three table operations and the normalisation of get_available_years.    *)
(*                                                                         *)
(* Spec       single-threaded callers, every operation one atomic step.    *)
(* SpecYears  get_available_years applied to every foreign value of the    *)
(*            bounded universe ForeignValues.                              *)
(* SpecConc   several threads stepping through _get_pkg line by line.      *)
(***************************************************************************)
EXTENDS Integers, Sequences, FiniteSets, TLC

\* ------------------------------------------------------------------ bounds
MaxYear == 1
MaxLen == 3
MaxSeq == 2
MaxLoads == 2
NThreads == 2

\* ------------------------------------------------------------------ values
\* Python's None as the value of the module global _pkg (core.py:12).
NoHandle == 0

\* A value crossing the bridge: kind, the side it lives on, and its content.
NoneVal == [kind |-> "none", repr |-> "", data |-> <<>>]
PyInt(n) == [kind |-> "int", repr |-> "native", data |-> <<n>>]
Table(repr, rows) == [kind |-> "table", repr |-> repr, data |-> rows]
HandleVal(h) == [kind |-> "handle", repr |-> "native", data |-> <<h>>]

\* robjects.IntVector(end_years): a foreign integer vector with the same
\* elements in the same order.
IntVector(years) == [kind |-> "int_vector", repr |-> "foreign", data |-> years]

\* pandas2ri.rpy2py / pandas2ri.py2rpy: same rows, the other representation.
rpy2py(v) == [v EXCEPT !.repr = "native"]
py2rpy(v) == [v EXCEPT !.repr = "foreign"]

\* isinstance(x, pd.DataFrame)
IsDataFrame(v) == v.kind = "table" /\ v.repr = "native"

\* ------------------------------------------------------------------ errors
NoExc == [cls |-> "", msg |-> "", of |-> ""]
Exc(cls, msg, of) == [cls |-> cls, msg |-> msg, of |-> of]
\* what importr raises when the R package cannot be loaded
PackageLoadError == Exc("PackageLoadError", "importr", "")
\* what a failing R function raises through rpy2
ForeignErrors == {Exc("RRuntimeError", "e1", ""), Exc("RRuntimeError", "e2", "")}
UnexpectedMsg == "Unexpected return type from get_available_years: "

\* what a callee hands back: a value, or an exception
Ret(v) == [exc |-> NoExc, value |-> v]
Raise(e) == [exc |-> e, value |-> NoneVal]

\* ------------------------------------------------------------------ event log
\* The steps one operation performed, in program order; h is the value of
\* _pkg when the step ran, err the exception a "raised" step carries.
Ev(e, fn, val, h) == [ev |-> e, fn |-> fn, val |-> val, h |-> h, err |-> NoExc]
EvRaised(fn, e, h) == [ev |-> "raised", fn |-> fn, val |-> NoneVal, h |-> h, err |-> e]

\* ------------------------------------------------------------------ _get_pkg
\* p: _pkg on entry, n: package objects created so far, loadOk: whether
\* importr succeeds if it is called.  importr builds a new package object
\* per call; the handle returned is the field pkg (return _pkg).
\* _get_pkg without the test of line 18: importr on every call
_get_pkg_always_load(p, n, loadOk) ==
  IF loadOk
  THEN [pkg |-> n + 1, loads |-> n + 1, exc |-> NoExc,
        log |-> <<Ev("check", "_get_pkg", NoneVal, p),
                  Ev("importr", "_get_pkg", NoneVal, p)>>]
  ELSE [pkg |-> p, loads |-> n, exc |-> PackageLoadError,
        log |-> <<Ev("check", "_get_pkg", NoneVal, p),
                  Ev("importr", "_get_pkg", NoneVal, p),
                  EvRaised("importr", PackageLoadError, p)>>]

_get_pkg(p, n, loadOk) ==
  IF p = NoHandle
  THEN IF loadOk
       THEN [pkg |-> n + 1, loads |-> n + 1, exc |-> NoExc,
             log |-> <<Ev("check", "_get_pkg", NoneVal, p),
                       Ev("importr", "_get_pkg", NoneVal, p)>>]
       ELSE [pkg |-> p, loads |-> n, exc |-> PackageLoadError,
             log |-> <<Ev("check", "_get_pkg", NoneVal, p),
                       Ev("importr", "_get_pkg", NoneVal, p),
                       EvRaised("importr", PackageLoadError, p)>>]
  ELSE [pkg |-> p, loads |-> n, exc |-> NoExc,
        log |-> <<Ev("check", "_get_pkg", NoneVal, p)>>]

\* what an operation leaves behind: the cache, the package objects created,
\* the exception it raised (NoExc: none), the value it returned and its steps
Outcome(g, log, exc, result) ==
  [pkg |-> g.pkg, loads |-> g.loads, exc |-> exc, result |-> result, log |-> log]

\* ------------------------------------------------------------------ fetch_enr
\* ret: what pkg.fetch_enr(end_year) does under the converter, a raised R
\* error or a returned table in either representation.
\* fetch_enr rejecting a negative end_year itself, before any foreign call
fetch_enr_validating(p, n, end_year, loadOk, ret) ==
  LET g == _get_pkg(p, n, loadOk) IN
  IF g.exc # NoExc THEN Outcome(g, g.log, g.exc, NoneVal)
  ELSE IF end_year < 0
  THEN Outcome(g, g.log \o <<EvRaised("fetch_enr", Exc("ValueError", "end_year", ""), g.pkg)>>,
               Exc("ValueError", "end_year", ""), NoneVal)
  ELSE LET log == g.log \o <<Ev("call", "fetch_enr", PyInt(end_year), g.pkg)>> IN
       IF ret.exc # NoExc
       THEN Outcome(g, log \o <<EvRaised("fetch_enr", ret.exc, g.pkg)>>, ret.exc, NoneVal)
       ELSE IF IsDataFrame(ret.value)
       THEN Outcome(g, log \o <<Ev("returned", "fetch_enr", ret.value, g.pkg)>>,
                    NoExc, ret.value)
       ELSE Outcome(g, log \o <<Ev("returned", "fetch_enr", ret.value, g.pkg),
                                Ev("rpy2py", "pandas2ri", ret.value, g.pkg)>>,
                    NoExc, rpy2py(ret.value))

\* fetch_enr calling the R function a second time when the first call fails
fetch_enr_retry(p, n, end_year, loadOk, ret) ==
  LET g == _get_pkg(p, n, loadOk) IN
  IF g.exc # NoExc THEN Outcome(g, g.log, g.exc, NoneVal)
  ELSE LET log == g.log \o <<Ev("call", "fetch_enr", PyInt(end_year), g.pkg)>> IN
       IF ret.exc # NoExc
       THEN Outcome(g, log \o <<EvRaised("fetch_enr", ret.exc, g.pkg),
                                Ev("call", "fetch_enr", PyInt(end_year), g.pkg),
                                EvRaised("fetch_enr", ret.exc, g.pkg)>>,
                    ret.exc, NoneVal)
       ELSE IF IsDataFrame(ret.value)
       THEN Outcome(g, log \o <<Ev("returned", "fetch_enr", ret.value, g.pkg)>>,
                    NoExc, ret.value)
       ELSE Outcome(g, log \o <<Ev("returned", "fetch_enr", ret.value, g.pkg),
                                Ev("rpy2py", "pandas2ri", ret.value, g.pkg)>>,
                    NoExc, rpy2py(ret.value))

fetch_enr(p, n, end_year, loadOk, ret) ==
  LET g == _get_pkg(p, n, loadOk) IN
  IF g.exc # NoExc THEN Outcome(g, g.log, g.exc, NoneVal)
  ELSE LET log == g.log \o <<Ev("call", "fetch_enr", PyInt(end_year), g.pkg)>> IN
       IF ret.exc # NoExc
       THEN Outcome(g, log \o <<EvRaised("fetch_enr", ret.exc, g.pkg)>>, ret.exc, NoneVal)
       ELSE IF IsDataFrame(ret.value)
       THEN Outcome(g, log \o <<Ev("returned", "fetch_enr", ret.value, g.pkg)>>,
                    NoExc, ret.value)
       ELSE Outcome(g, log \o <<Ev("returned", "fetch_enr", ret.value, g.pkg),
                                Ev("rpy2py", "pandas2ri", ret.value, g.pkg)>>,
                    NoExc, rpy2py(ret.value))

\* ------------------------------------------------------------------ fetch_enr_multi
\* years is the caller's list; the field end_years of the outcome is that
\* list after the call.
\* fetch_enr_multi returning r_df as the bridge handed it back
fetch_enr_multi_unconverted(p, n, years, loadOk, ret) ==
  LET g == _get_pkg(p, n, loadOk) IN
  [end_years |-> years] @@
  IF g.exc # NoExc THEN Outcome(g, g.log, g.exc, NoneVal)
  ELSE LET r_years == IntVector(years)
           log == g.log \o <<Ev("marshal", "IntVector", r_years, g.pkg),
                             Ev("call", "fetch_enr_multi", r_years, g.pkg)>> IN
       IF ret.exc # NoExc
       THEN Outcome(g, log \o <<EvRaised("fetch_enr_multi", ret.exc, g.pkg)>>,
                    ret.exc, NoneVal)
       ELSE Outcome(g, log \o <<Ev("returned", "fetch_enr_multi", ret.value, g.pkg)>>,
                    NoExc, ret.value)

fetch_enr_multi(p, n, years, loadOk, ret) ==
  LET g == _get_pkg(p, n, loadOk) IN
  [end_years |-> years] @@
  IF g.exc # NoExc THEN Outcome(g, g.log, g.exc, NoneVal)
  ELSE LET r_years == IntVector(years)
           log == g.log \o <<Ev("marshal", "IntVector", r_years, g.pkg),
                             Ev("call", "fetch_enr_multi", r_years, g.pkg)>> IN
       IF ret.exc # NoExc
       THEN Outcome(g, log \o <<EvRaised("fetch_enr_multi", ret.exc, g.pkg)>>,
                    ret.exc, NoneVal)
       ELSE IF IsDataFrame(ret.value)
       THEN Outcome(g, log \o <<Ev("returned", "fetch_enr_multi", ret.value, g.pkg)>>,
                    NoExc, ret.value)
       ELSE Outcome(g, log \o <<Ev("returned", "fetch_enr_multi", ret.value, g.pkg),
                                Ev("rpy2py", "pandas2ri", ret.value, g.pkg)>>,
                    NoExc, rpy2py(ret.value))

\* ------------------------------------------------------------------ tidy_enr
\* t is the caller's DataFrame; the field df of the outcome is that object
\* after the call.
\* tidy_enr converting the caller's frame in place
tidy_enr_inplace(p, n, t, loadOk, ret) ==
  LET g == _get_pkg(p, n, loadOk) IN
  IF g.exc # NoExc THEN [df |-> t] @@ Outcome(g, g.log, g.exc, NoneVal)
  ELSE LET r_df == py2rpy(t)
           log == g.log \o <<Ev("marshal", "py2rpy", r_df, g.pkg),
                             Ev("call", "tidy_enr", r_df, g.pkg)>> IN
       [df |-> r_df] @@
       IF ret.exc # NoExc
       THEN Outcome(g, log \o <<EvRaised("tidy_enr", ret.exc, g.pkg)>>, ret.exc, NoneVal)
       ELSE IF IsDataFrame(ret.value)
       THEN Outcome(g, log \o <<Ev("returned", "tidy_enr", ret.value, g.pkg)>>,
                    NoExc, ret.value)
       ELSE Outcome(g, log \o <<Ev("returned", "tidy_enr", ret.value, g.pkg),
                                Ev("rpy2py", "pandas2ri", ret.value, g.pkg)>>,
                    NoExc, rpy2py(ret.value))

tidy_enr(p, n, t, loadOk, ret) ==
  LET g == _get_pkg(p, n, loadOk) IN
  [df |-> t] @@
  IF g.exc # NoExc THEN Outcome(g, g.log, g.exc, NoneVal)
  ELSE LET r_df == py2rpy(t)
           log == g.log \o <<Ev("marshal", "py2rpy", r_df, g.pkg),
                             Ev("call", "tidy_enr", r_df, g.pkg)>> IN
       IF ret.exc # NoExc
       THEN Outcome(g, log \o <<EvRaised("tidy_enr", ret.exc, g.pkg)>>, ret.exc, NoneVal)
       ELSE IF IsDataFrame(ret.value)
       THEN Outcome(g, log \o <<Ev("returned", "tidy_enr", ret.value, g.pkg)>>,
                    NoExc, ret.value)
       ELSE Outcome(g, log \o <<Ev("returned", "tidy_enr", ret.value, g.pkg),
                                Ev("rpy2py", "pandas2ri", ret.value, g.pkg)>>,
                    NoExc, rpy2py(ret.value))

\* ------------------------------------------------------------------ foreign year values
\* What pkg.get_available_years() can hand back under the converter: an object
\* holding named elements, seen through the capabilities the code probes.
\*   dict   isinstance(r_result, dict)
\*   rx2    hasattr(r_result, "rx2")
\*   names  getattr(r_result, "names", None): "none", an iterable of the
\*          element names ("iter"), or some non-iterable attribute ("noniter")
\*   items  the elements in order, each a name and a vector of numbers; a
\*          Python number is a vector of length one
\* A number is <<"int", n>> or <<"float", t>>, the float t/2.
Scalars == {<<"int", y>> : y \in 0..MaxYear} \cup {<<"float", 2 * MaxYear + 1>>}
Elements ==
  {<<x>> : x \in Scalars} \cup {<<>>, << <<"int", MaxYear>>, <<"int", 0>> >>}
Items ==
  [name : {"min_year", "max_year"}, elem : Elements]
    \cup {[name |-> "other", elem |-> << <<"int", 0>> >>]}
ItemSeqs == UNION {[1..k -> Items] : k \in 0..MaxLen}
UniqueNames(its) ==
  \A i, j \in 1..Len(its) : its[i].name = its[j].name => i = j
\* a dict has one entry per key; a non-iterable names attribute is modelled
\* on objects with no other capability
ForeignValues ==
  {r \in [dict : BOOLEAN, rx2 : BOOLEAN, names : {"none", "iter", "noniter"},
          items : ItemSeqs] :
     /\ r.dict => UniqueNames(r.items)
     /\ r.names = "noniter" => ~r.dict /\ ~r.rx2}

\* type(r_result), as the message of line 148 prints it
TypeOf(r) ==
  IF r.dict THEN "dict"
  ELSE IF r.rx2 THEN "ListVector"
  ELSE IF r.names # "none" THEN "NamedList"
  ELSE IF r.items = <<>> THEN "int" ELSE "list"

\* ------------------------------------------------------------------ exceptions of the normalisation
KeyError(k) == Exc("KeyError", k, "")
IndexError == Exc("IndexError", "index out of range", "")
IntTypeError == Exc("TypeError", "int() argument", "")
IterTypeError == Exc("TypeError", "object is not iterable", "")
SubscriptTypeError == Exc("TypeError", "object is not subscriptable", "")
UnexpectedReturnType(t) == Exc("TypeError", UnexpectedMsg, t)

\* the normalised mapping get_available_years returns
YearsDict(f) == [kind |-> "dict", repr |-> "native", data |-> <<>>, map |-> f]

\* int(x) of a Python number: an int is itself, a float truncates toward zero
int(x) ==
  IF x[1] = "int" THEN x
  ELSE IF x[2] >= 0 THEN <<"int", x[2] \div 2>>
  ELSE <<"int", -((-x[2]) \div 2)>>

\* int(e) of an element: defined on a single number only
IntOfElem(e) == IF Len(e) = 1 THEN Ret(int(e[1])) ELSE Raise(IntTypeError)

\* positions of the elements named k
Positions(r, k) == {i \in 1..Len(r.items) : r.items[i].name = k}

\* lines 128-132: r_result["min_year"], r_result["max_year"], each through int
FromDict(r) ==
  LET lookup(k) ==
        IF Positions(r, k) = {} THEN Raise(KeyError(k))
        ELSE IntOfElem(r.items[CHOOSE i \in Positions(r, k) : TRUE].elem)
      a == lookup("min_year")
      b == lookup("max_year")
  IN IF a.exc # NoExc THEN {Raise(a.exc)}
     ELSE IF b.exc # NoExc THEN {Raise(b.exc)}
     ELSE {Ret(YearsDict("min_year" :> a.value @@ "max_year" :> b.value))}

\* r_result.rx2(k)[0]: R's [[k]] is the first element named k, NULL when
\* there is none; subscripting NULL raises (which exception is rpy2's
\* choice), and so does element 0 of an empty vector.
Rx2First(r, k) ==
  IF Positions(r, k) = {} THEN {Raise(SubscriptTypeError), Raise(IndexError)}
  ELSE LET e == r.items[CHOOSE i \in Positions(r, k) :
                          \A j \in Positions(r, k) : i <= j].elem
       IN IF Len(e) = 0 THEN {Raise(IndexError)} ELSE {Ret(int(e[1]))}

\* lines 134-138
FromRx2(r) ==
  UNION {IF a.exc # NoExc THEN {Raise(a.exc)}
         ELSE {IF b.exc # NoExc THEN Raise(b.exc)
               ELSE Ret(YearsDict("min_year" :> a.value @@ "max_year" :> b.value)) :
               b \in Rx2First(r, "max_year")} :
         a \in Rx2First(r, "min_year")}

\* lines 143-147: the loop over enumerate(names), from position i on, result
\* so far acc
RECURSIVE ScanNames(_, _, _)
ScanNames(r, i, acc) ==
  IF i > Len(r.items) THEN Ret(YearsDict(acc))
  ELSE IF r.items[i].name \in {"min_year", "max_year"}
  THEN LET v == IntOfElem(r.items[i].elem) IN
       IF v.exc # NoExc THEN Raise(v.exc)
       ELSE ScanNames(r, i + 1,
                      [k \in DOMAIN acc \cup {r.items[i].name} |->
                         IF k = r.items[i].name THEN v.value ELSE acc[k]])
  ELSE ScanNames(r, i + 1, acc)

\* lines 140-147 taking min_year and max_year from the first two positions,
\* whatever their names
FromNames_by_position(r) ==
  IF r.names = "noniter" THEN {Raise(IterTypeError)}
  ELSE IF Len(r.items) < 2 THEN {Raise(IndexError)}
  ELSE LET a == IntOfElem(r.items[1].elem)
           b == IntOfElem(r.items[2].elem)
       IN IF a.exc # NoExc THEN {Raise(a.exc)}
          ELSE IF b.exc # NoExc THEN {Raise(b.exc)}
          ELSE {Ret(YearsDict("min_year" :> a.value @@ "max_year" :> b.value))}

\* lines 140-147
FromNames(r) ==
  IF r.names = "noniter" THEN {Raise(IterTypeError)}
  ELSE {ScanNames(r, 1, <<>>)}

\* lines 128-148 with the name-indexed branch tried before the mapping
normalise_rx2_first(r) ==
  IF r.rx2 THEN FromRx2(r)
  ELSE IF r.dict THEN FromDict(r)
  ELSE IF r.names # "none" THEN FromNames(r)
  ELSE {Raise(UnexpectedReturnType(TypeOf(r)))}

\* lines 128-148 returning an empty mapping where line 148 raises
normalise_lenient(r) ==
  IF r.dict THEN FromDict(r)
  ELSE IF r.rx2 THEN FromRx2(r)
  ELSE IF r.names # "none" THEN FromNames(r)
  ELSE {Ret(YearsDict(<<>>))}

\* lines 128-148: the outcomes of normalising r_result
normalise(r) ==
  IF r.dict THEN FromDict(r)
  ELSE IF r.rx2 THEN FromRx2(r)
  ELSE IF r.names # "none" THEN FromNames(r)
  ELSE {Raise(UnexpectedReturnType(TypeOf(r)))}

\* ------------------------------------------------------------------ get_available_years
\* ret: what pkg.get_available_years() does, a raised R error or r_result.
\* The outcomes the call can have.
get_available_years(p, n, loadOk, ret) ==
  LET g == _get_pkg(p, n, loadOk) IN
  IF g.exc # NoExc THEN {Outcome(g, g.log, g.exc, NoneVal)}
  ELSE LET log == g.log \o <<Ev("call", "get_available_years", NoneVal, g.pkg)>> IN
       IF ret.exc # NoExc
       THEN {Outcome(g, log \o <<EvRaised("get_available_years", ret.exc, g.pkg)>>,
                     ret.exc, NoneVal)}
       ELSE {Outcome(g, log \o <<Ev("returned", "get_available_years", NoneVal, g.pkg)>>,
                     o.exc, o.value) : o \in normalise(ret.value)}

\* get_package_handle: _get_pkg called for its own sake
get_package_handle(p, n, loadOk) ==
  LET g == _get_pkg(p, n, loadOk) IN
  IF g.exc # NoExc THEN Outcome(g, g.log, g.exc, NoneVal)
  ELSE Outcome(g, g.log, NoExc, HandleVal(g.pkg))

\* ------------------------------------------------------------------ state
VARIABLES
  pkg,            \* the module global _pkg: NoHandle or the handle cached
  loads,          \* how many package objects importr has created
  op,             \* the last operation called ("" before the first)
  arg,            \* the argument it was called with, when passed by value
  log,            \* the steps that operation performed
  exc,            \* the exception it raised, NoExc when it returned
  result,         \* the value it returned, NoneVal when it raised
  df,             \* the caller's DataFrame, the argument of tidy_enr
  end_years,      \* the caller's list, the argument of fetch_enr_multi
  foreign_years,  \* what the R function get_available_years returns
  pc,             \* SpecConc: each thread's position in _get_pkg
  tmp,            \* SpecConc: the package object a thread's importr returned
  got             \* SpecConc: the handle _get_pkg returned to each thread

vars == <<pkg, loads, op, arg, log, exc, result, df, end_years, foreign_years,
          pc, tmp, got>>
conc == <<pc, tmp, got>>
last == <<op, arg, log, exc, result>>

Threads == 1..NThreads

\* ------------------------------------------------------------------ inputs and environment
EndYearInputs == -1..MaxYear
RowSets == {<<>>, <<MaxYear>>}
DataFrames == {Table("native", rows) : rows \in RowSets}
YearLists == UNION {[1..k -> {-1, MaxYear}] : k \in 0..MaxSeq}
\* what an R function returning a data frame does under the converter
TableReturns ==
  {Raise(e) : e \in ForeignErrors}
    \cup {Ret(Table(rp, rows)) : rp \in {"native", "foreign"}, rows \in RowSets}
\* what the R function get_available_years does
YearsReturns == {Raise(e) : e \in ForeignErrors} \cup {Ret(foreign_years)}

\* the foreign year values Spec starts from: every capability combination
\* over one element list, and a bare integer
SmallItemSeqs ==
  {<<[name |-> "min_year", elem |-> << <<"int", 0>> >>],
     [name |-> "max_year", elem |-> << <<"float", 2 * MaxYear + 1>> >>]>>}
SmallForeignValues ==
  {r \in ForeignValues :
     \/ r.items \in SmallItemSeqs
     \/ r.items = <<>> /\ ~r.dict /\ ~r.rx2 /\ r.names = "none"}

ConcInit ==
  /\ pc = [t \in Threads |-> "idle"]
  /\ tmp = [t \in Threads |-> NoHandle]
  /\ got = [t \in Threads |-> NoHandle]

Init ==
  /\ pkg = NoHandle
  /\ loads = 0
  /\ op = ""
  /\ arg = NoneVal
  /\ log = <<>>
  /\ exc = NoExc
  /\ result = NoneVal
  /\ df \in DataFrames
  /\ end_years \in YearLists
  /\ foreign_years \in SmallForeignValues
  /\ ConcInit

\* ------------------------------------------------------------------ operations
\* o: the outcome of the operation named name
Finish(name, a, o) ==
  /\ arg' = a
  /\ pkg' = o.pkg
  /\ loads' = o.loads
  /\ op' = name
  /\ log' = o.log
  /\ exc' = o.exc
  /\ result' = o.result

GetPackageHandle ==
  /\ loads < MaxLoads
  /\ \E loadOk \in BOOLEAN :
       Finish("get_package_handle", NoneVal, get_package_handle(pkg, loads, loadOk))
  /\ UNCHANGED <<df, end_years, foreign_years, conc>>

FetchEnr ==
  /\ loads < MaxLoads
  /\ \E end_year \in EndYearInputs, loadOk \in BOOLEAN, ret \in TableReturns :
       Finish("fetch_enr", PyInt(end_year), fetch_enr(pkg, loads, end_year, loadOk, ret))
  /\ UNCHANGED <<df, end_years, foreign_years, conc>>

FetchEnrMulti ==
  /\ loads < MaxLoads
  /\ \E loadOk \in BOOLEAN, ret \in TableReturns :
       LET o == fetch_enr_multi(pkg, loads, end_years, loadOk, ret) IN
       /\ Finish("fetch_enr_multi", NoneVal, o)
       /\ end_years' = o.end_years
  /\ UNCHANGED <<df, foreign_years, conc>>

TidyEnr ==
  /\ loads < MaxLoads
  /\ \E loadOk \in BOOLEAN, ret \in TableReturns :
       LET o == tidy_enr(pkg, loads, df, loadOk, ret) IN
       /\ Finish("tidy_enr", NoneVal, o)
       /\ df' = o.df
  /\ UNCHANGED <<end_years, foreign_years, conc>>

GetAvailableYears ==
  /\ loads < MaxLoads
  /\ \E loadOk \in BOOLEAN, ret \in YearsReturns :
       \E o \in get_available_years(pkg, loads, loadOk, ret) :
         Finish("get_available_years", NoneVal, o)
  /\ UNCHANGED <<df, end_years, foreign_years, conc>>

Next ==
  \/ GetPackageHandle
  \/ FetchEnr
  \/ FetchEnrMulti
  \/ TidyEnr
  \/ GetAvailableYears

Spec == Init /\ [][Next]_vars

\* ------------------------------------------------------------------ SpecYears
\* get_available_years over every foreign value of the universe
InitYears ==
  /\ pkg = NoHandle
  /\ loads = 0
  /\ op = ""
  /\ arg = NoneVal
  /\ log = <<>>
  /\ exc = NoExc
  /\ result = NoneVal
  /\ df = Table("native", <<>>)
  /\ end_years = <<>>
  /\ foreign_years \in ForeignValues
  /\ ConcInit

NextYears == GetAvailableYears

SpecYears == InitYears /\ [][NextYears]_vars

\* ------------------------------------------------------------------ SpecConc
\* Threads of one process call operations at the same time; each runs the
\* lines of _get_pkg one at a time, and the interpreter may switch threads
\* between any two of them.  The code takes no lock.
InitConc ==
  /\ pkg = NoHandle
  /\ loads = 0
  /\ op = ""
  /\ arg = NoneVal
  /\ log = <<>>
  /\ exc = NoExc
  /\ result = NoneVal
  /\ df = Table("native", <<>>)
  /\ end_years = <<>>
  /\ foreign_years = [dict |-> TRUE, rx2 |-> FALSE, names |-> "none", items |-> <<>>]
  /\ ConcInit

\* an operation starts: its first line calls _get_pkg
ConcCall(t) ==
  /\ pc[t] = "idle"
  /\ pc' = [pc EXCEPT ![t] = "check"]
  /\ UNCHANGED <<pkg, loads, tmp, got, last, df, end_years, foreign_years>>

\* line 18: if _pkg is None
ConcCheck(t) ==
  /\ pc[t] = "check"
  /\ pc' = [pc EXCEPT ![t] = IF pkg = NoHandle THEN "importr" ELSE "return"]
  /\ UNCHANGED <<pkg, loads, tmp, got, last, df, end_years, foreign_years>>

\* line 19, right-hand side: importr("meschooldata") builds a package object
ConcImportr(t) ==
  /\ pc[t] = "importr"
  /\ loads < MaxLoads
  /\ loads' = loads + 1
  /\ tmp' = [tmp EXCEPT ![t] = loads + 1]
  /\ pc' = [pc EXCEPT ![t] = "store"]
  /\ UNCHANGED <<pkg, got, last, df, end_years, foreign_years>>

\* line 19, right-hand side: importr raises, the operation ends
ConcImportrFails(t) ==
  /\ pc[t] = "importr"
  /\ pc' = [pc EXCEPT ![t] = "idle"]
  /\ UNCHANGED <<pkg, loads, tmp, got, last, df, end_years, foreign_years>>

\* line 19, the assignment to the global
ConcStore(t) ==
  /\ pc[t] = "store"
  /\ pkg' = tmp[t]
  /\ pc' = [pc EXCEPT ![t] = "return"]
  /\ UNCHANGED <<loads, tmp, got, last, df, end_years, foreign_years>>

\* line 20: return _pkg reads the global again
ConcReturn(t) ==
  /\ pc[t] = "return"
  /\ got' = [got EXCEPT ![t] = pkg]
  /\ pc' = [pc EXCEPT ![t] = "call"]
  /\ UNCHANGED <<pkg, loads, tmp, last, df, end_years, foreign_years>>

\* the rest of the operation: the foreign call on the handle obtained
ConcForeignCall(t) ==
  /\ pc[t] = "call"
  /\ pc' = [pc EXCEPT ![t] = "idle"]
  /\ UNCHANGED <<pkg, loads, tmp, got, last, df, end_years, foreign_years>>

NextConc ==
  \E t \in Threads :
    \/ ConcCall(t)
    \/ ConcCheck(t)
    \/ ConcImportr(t)
    \/ ConcImportrFails(t)
    \/ ConcStore(t)
    \/ ConcReturn(t)
    \/ ConcForeignCall(t)

SpecConc == InitConc /\ [][NextConc]_vars

\* ================================================================== claims
\* positions of the steps of kind e in a log
Steps(l, e) == {i \in 1..Len(l) : l[i].ev = e}
TableOps == {"fetch_enr", "fetch_enr_multi", "tidy_enr"}
\* the last operation entered with the cache already loaded
EnteredLoaded == op # "" /\ log[1].h # NoHandle

\* C2: in a single-threaded run the package is loaded at most once: an
\* operation entering with an empty cache calls importr, one entering with a
\* loaded cache calls nothing and works on the cached handle, which is the
\* one handle ever created.
C2_LoadedAtMostOnce ==
  /\ loads <= 1
  /\ pkg \in {NoHandle, 1}
  /\ op # "" =>
       /\ log[1].ev = "check"
       /\ log[1].h = NoHandle => Len(log) >= 2 /\ log[2].ev = "importr"
       /\ log[1].h # NoHandle =>
            /\ Steps(log, "importr") = {}
            /\ \A i \in 1..Len(log) : log[i].h = pkg
            /\ op = "get_package_handle" => result = HandleVal(pkg)

\* a second and later call that found the handle cached and succeeded
C2_Witness ==
  /\ EnteredLoaded
  /\ op = "get_package_handle"
  /\ exc = NoExc
  /\ loads = 1

\* C9: an operation writes no shared state but the handle cache, and that
\* only from empty to loaded: a loaded cache is never replaced or emptied,
\* and the caller's DataFrame and year list are what they were.
C9_OnlyTheCacheChanges ==
  [][/\ pkg # NoHandle => pkg' = pkg
     /\ df' = df
     /\ end_years' = end_years]_vars

\* tidy_enr has failed in the foreign call with the handle cached before it
C9_Witness ==
  /\ EnteredLoaded
  /\ op = "tidy_enr"
  /\ exc \in ForeignErrors
  /\ pkg # NoHandle
  /\ df.repr = "native"

\* C10: every operation obtains the handle first: each marshalling step and
\* each foreign call runs after the check of the cache, with the cache
\* loaded; fetch_enr, once it has the handle, makes exactly one foreign call,
\* of fetch_enr, with the end_year it was given, whatever that integer is.
C10_HandleFirst ==
  op # "" =>
    /\ log[1].ev = "check"
    /\ \A i \in 1..Len(log) :
         log[i].ev \in {"marshal", "call", "returned", "rpy2py"} =>
           i > 1 /\ log[i].h # NoHandle /\ log[i].h = pkg
    /\ op = "fetch_enr" /\ exc # PackageLoadError =>
         /\ Cardinality(Steps(log, "call")) = 1
         /\ \A i \in Steps(log, "call") :
              log[i].fn = "fetch_enr" /\ log[i].val = arg

\* fetch_enr was given a negative end_year on an empty cache and called R
C10_Witness ==
  /\ op = "fetch_enr"
  /\ arg = PyInt(-1)
  /\ log[1].h = NoHandle
  /\ Steps(log, "call") # {}
  /\ exc = NoExc

\* C6: a table operation that returns hands back a native table with the rows
\* the bridge returned, and it ran the conversion exactly when the bridge's
\* value was not native.
C6_ReturnsNative ==
  op \in TableOps /\ exc = NoExc =>
    /\ IsDataFrame(result)
    /\ Cardinality(Steps(log, "returned")) = 1
    /\ \A i \in Steps(log, "returned") :
         /\ result.data = log[i].val.data
         /\ (Steps(log, "rpy2py") # {}) <=> (log[i].val.repr = "foreign")

\* fetch_enr_multi got a foreign table with rows and converted it
C6_Witness ==
  /\ op = "fetch_enr_multi"
  /\ exc = NoExc
  /\ Steps(log, "rpy2py") # {}
  /\ result = Table("native", <<MaxYear>>)

\* what every operation does about failures: a failure reaches the caller as
\* it was raised, with nothing returned and nothing tried twice; a failed load
\* raises PackageLoadError before any foreign call and leaves the cache
\* empty, and an operation entering with an empty cache calls importr (so the
\* next one tries again); a failed foreign call raises the R error itself
\* after one call.
FailuresSurface ==
  op # "" =>
    /\ Cardinality(Steps(log, "importr")) <= 1
    /\ Cardinality(Steps(log, "call")) <= 1
    /\ log[1].h = NoHandle => Steps(log, "importr") # {}
    /\ exc # NoExc => result = NoneVal
    /\ \A i \in Steps(log, "raised") : i = Len(log) /\ log[i].err = exc
    /\ (op \in TableOps \/ exc \in ForeignErrors \/ exc = PackageLoadError) =>
         (Steps(log, "raised") # {} <=> exc # NoExc)
    /\ exc = PackageLoadError =>
         pkg = NoHandle /\ Steps(log, "call") = {} /\ log[Len(log)].fn = "importr"
    /\ exc \in ForeignErrors =>
         /\ Steps(log, "call") # {}
         /\ \A i \in Steps(log, "call") : i = Len(log) - 1

\* C7 as stated: failures surface, and an operation whose foreign call fails
\* leaves the handle cache as it was when the operation began.
C7_AllOrNothing ==
  /\ FailuresSurface
  /\ op # "" /\ exc \in ForeignErrors => pkg = log[1].h

\* C7 as amended: failures surface, and an operation whose foreign call
\* fails leaves the handle cache as that call found it, loaded: a handle the
\* same operation loaded before the call stays cached.
C7_FailuresPropagate ==
  /\ FailuresSurface
  /\ op # "" /\ exc \in ForeignErrors =>
       /\ pkg # NoHandle
       /\ \A i \in Steps(log, "call") : log[i].h = pkg
       /\ log[1].h # NoHandle => pkg = log[1].h

\* fetch_enr loaded the package and then failed in the foreign call
C7_Witness ==
  /\ op = "fetch_enr"
  /\ exc \in ForeignErrors
  /\ log[1].h = NoHandle
  /\ pkg # NoHandle
  /\ result = NoneVal

\* C4: the error of line 148 is raised by get_available_years alone, exactly
\* when the value R returned is no mapping, has no rx2 and no names, and it
\* carries the type of that value.
NoKnownShape(r) == ~r.dict /\ ~r.rx2 /\ r.names = "none"
C4_UnexpectedOnly ==
  /\ exc.msg = UnexpectedMsg =>
       /\ op = "get_available_years"
       /\ NoKnownShape(foreign_years)
       /\ exc = UnexpectedReturnType(TypeOf(foreign_years))
  /\ (/\ op = "get_available_years"
      /\ Steps(log, "returned") # {}
      /\ NoKnownShape(foreign_years)) =>
       exc = UnexpectedReturnType(TypeOf(foreign_years)) /\ result = NoneVal

\* get_available_years got a bare integer back and raised
C4_Witness ==
  /\ op = "get_available_years"
  /\ foreign_years.items = <<>>
  /\ exc = UnexpectedReturnType("int")

\* ------------------------------------------------------------------ claims on the normalisation (SpecYears)
\* get_available_years loaded the package, called R and got r_result back
Normalised == op = "get_available_years" /\ Steps(log, "returned") # {}
\* twice the number x stands for
Twice(x) == IF x[1] = "int" THEN 2 * x[2] ELSE x[2]
\* v is the integer Python's int() makes of the number x
IsIntOf(v, x) ==
  /\ v[1] = "int"
  /\ 2 * v[2] <= Twice(x)
  /\ Twice(x) < 2 * v[2] + 2

\* every min_year number R holds is at most every max_year number it holds
SourceOrdered(r) ==
  \A i \in Positions(r, "min_year"), j \in Positions(r, "max_year") :
    \A m \in 1..Len(r.items[i].elem), k \in 1..Len(r.items[j].elem) :
      Twice(r.items[i].elem[m]) <= Twice(r.items[j].elem[k])

\* C1: whenever get_available_years returns, the result is a mapping with
\* exactly the keys min_year and max_year, both integers, and min_year <=
\* max_year (the order being that of the numbers R holds).
C1_YearRange ==
  Normalised /\ exc = NoExc =>
    /\ result.kind = "dict"
    /\ DOMAIN result.map = {"min_year", "max_year"}
    /\ \A k \in DOMAIN result.map : result.map[k][1] = "int"
    /\ SourceOrdered(foreign_years) =>
         result.map["min_year"][2] <= result.map["max_year"][2]

\* r with only the first capability the code would match
FirstShapeOnly(r) ==
  IF r.dict THEN [r EXCEPT !.rx2 = FALSE, !.names = "none"]
  ELSE IF r.rx2 THEN [r EXCEPT !.names = "none"]
  ELSE r

\* C3: the shapes are tried in the order mapping, rx2, names, failure, and
\* the first that matches decides alone: the outcome is the one the same
\* elements give with every later capability removed; through rx2 each year
\* is int() of the first number of the first element of that name; a value
\* of no known shape raises the error of line 148.
C3_PriorityOrder ==
  Normalised =>
    LET r == foreign_years IN
    /\ [exc |-> exc, value |-> result] \in normalise(FirstShapeOnly(r))
    /\ ~r.dict /\ r.rx2 /\ exc = NoExc =>
         \A k \in {"min_year", "max_year"} :
           \E i \in Positions(r, k) :
             /\ \A j \in Positions(r, k) : i <= j
             /\ IsIntOf(result.map[k], r.items[i].elem[1])
    /\ NoKnownShape(r) => exc.msg = UnexpectedMsg

\* a value that is a mapping and has rx2 and names was normalised as a
\* mapping: its two-number min_year element made int() raise, where rx2 would
\* have taken the first number
C3_Witness ==
  /\ Normalised
  /\ foreign_years.dict /\ foreign_years.rx2 /\ foreign_years.names = "iter"
  /\ \E i \in Positions(foreign_years, "min_year") : Len(foreign_years.items[i].elem) = 2
  /\ exc = IntTypeError

\* r holds exactly one element named min_year, the integer a, and exactly
\* one named max_year, the integer b, in either order, other names allowed
Encodes(r, a, b) ==
  /\ Cardinality(Positions(r, "min_year")) = 1
  /\ Cardinality(Positions(r, "max_year")) = 1
  /\ \A i \in Positions(r, "min_year") : r.items[i].elem = << <<"int", a>> >>
  /\ \A i \in Positions(r, "max_year") : r.items[i].elem = << <<"int", b>> >>

\* C5: a mapping, an rx2 object and a names/values object that hold the same
\* pair (a, b), in either name order and with or without other names, all
\* normalise to {"min_year": a, "max_year": b}.
C5_EncodingsAgree ==
  Normalised =>
    \A a, b \in 0..MaxYear :
      (/\ Encodes(foreign_years, a, b)
       /\ foreign_years.dict \/ foreign_years.rx2 \/ foreign_years.names = "iter") =>
        /\ exc = NoExc
        /\ result = YearsDict("min_year" :> <<"int", a>> @@ "max_year" :> <<"int", b>>)

\* a names-only object listing other, max_year, min_year with values
\* 0, 0, MaxYear was normalised to {min_year: MaxYear, max_year: 0}
C5_Witness ==
  /\ Normalised
  /\ ~foreign_years.dict /\ ~foreign_years.rx2 /\ foreign_years.names = "iter"
  /\ Len(foreign_years.items) = 3
  /\ foreign_years.items[1].name = "other"
  /\ foreign_years.items[2].name = "max_year"
  /\ Encodes(foreign_years, MaxYear, 0)
  /\ result = YearsDict("min_year" :> <<"int", MaxYear>> @@ "max_year" :> <<"int", 0>>)

\* ------------------------------------------------------------------ claim on concurrent first use (SpecConc)
\* C8: with concurrent callers the package is loaded exactly once and every
\* caller works on the same handle.
C8_SingleInitialisation ==
  /\ loads <= 1
  /\ \A t, u \in Threads :
       got[t] # NoHandle /\ got[u] # NoHandle => got[t] = got[u]

====
